---- MODULE Spec2Model ----
(***************************************************************************)
(* Planner::Optimizer of Planner/Planner.cpp: one analyzed query is turned *)
(* into a RootPlan by the pipeline                                         *)
(*   optimize -> optimize_query -> optimize_scans -> optimize_joins ->     *)
(*   optimize_aggs -> process_targetlist -> optimize_orderby -> RootPlan   *)
(* followed by the teardown of the returned tree (RootPlan::~RootPlan).    *)
(* Heap objects (plan nodes, TargetEntry's, predicate expressions) carry   *)
(* identities, so ownership and release are state, not assumptions.        *)
(* Range-table indexes are 0-based as in the code; sequences are 1-based.  *)
(***************************************************************************)
EXTENDS Integers, Sequences, FiniteSets, TLC

(* ---------------------------- bounds ----------------------------------- *)
(* range-table entries of a query *)
MaxRT == 2
(* clause expressions of a query: target entries + WHERE conjuncts +       *)
(* group-by expressions + HAVING conjuncts                                 *)
MaxExprs == 3

(* ------------------------- the catalog --------------------------------- *)
ColumnDescs(t) == IF t = 1 THEN <<1, 2>> ELSE <<2, 1>>

(* ------------------- Analyzer expressions (values) --------------------- *)
NullExpr == [op |-> "null", fn |-> "", rte |-> 0, col |-> 0, varno |-> 0, args |-> <<>>]

Constant == [op |-> "Constant", fn |-> "", rte |-> 0, col |-> 0, varno |-> 0, args |-> <<>>]

ColumnVar(r, c) == [op |-> "ColumnVar", fn |-> "", rte |-> r, col |-> c, varno |-> 0, args |-> <<>>]

Var(r, c, n) == [op |-> "Var", fn |-> "", rte |-> r, col |-> c, varno |-> n, args |-> <<>>]

AggExpr(f, a) == [op |-> "AggExpr", fn |-> f, rte |-> 0, col |-> 0, varno |-> 0, args |-> a]

BinOper(f, l, r) == [op |-> "BinOper", fn |-> f, rte |-> 0, col |-> 0, varno |-> 0, args |-> <<l, r>>]

SeqToSet(s) == {s[i] : i \in DOMAIN s}

RECURSIVE collect_rte_idx(_)
collect_rte_idx(e) ==
  IF e.op = "ColumnVar" THEN {e.rte}
  ELSE UNION {collect_rte_idx(e.args[i]) : i \in DOMAIN e.args}

(* colvar_comp: strict order on (table index, column id) *)
colvar_comp(a, b) == a.rte < b.rte \/ (a.rte = b.rte /\ a.col < b.col)

(* std::set<const ColumnVar*, comp>::insert on the set kept as its sorted *)
(* iteration sequence: an equivalent element blocks the insertion.        *)
RECURSIVE SetInsert(_, _)
SetInsert(s, cv) ==
  IF s = <<>> THEN <<cv>>
  ELSE IF colvar_comp(cv, Head(s)) THEN <<cv>> \o s
  ELSE IF ~colvar_comp(Head(s), cv) THEN s
  ELSE <<Head(s)>> \o SetInsert(Tail(s), cv)

RECURSIVE collect_column_var(_, _)
RECURSIVE CollectArgs(_, _)
CollectArgs(args, s) ==
  IF args = <<>> THEN s ELSE CollectArgs(Tail(args), collect_column_var(Head(args), s))

collect_column_var(e, s) ==
  IF e.op = "ColumnVar" THEN SetInsert(s, e) ELSE CollectArgs(e.args, s)

RECURSIVE CollectAll(_, _)
CollectAll(exprs, s) ==
  IF exprs = <<>> THEN s ELSE CollectAll(Tail(exprs), collect_column_var(Head(exprs), s))

(* group_predicates: a predicate is the sequence of its top-level AND      *)
(* conjuncts (<<>> is the absent predicate); each conjunct is classified   *)
(* by the number of range-table entries it references.                     *)
IsScanPred(p) == Cardinality(collect_rte_idx(p)) = 1
IsJoinPred(p) == Cardinality(collect_rte_idx(p)) > 1
IsConstPred(p) == Cardinality(collect_rte_idx(p)) = 0

group_predicates(pred) ==
  [scan |-> SelectSeq(pred, IsScanPred),
   join |-> SelectSeq(pred, IsJoinPred),
   const |-> SelectSeq(pred, IsConstPred)]

(* normalize_simple_predicate: a comparison of one column with a constant  *)
(* is returned with the column on the left (the comparison is commuted     *)
(* when the constant was on the left); anything else gives nullptr.        *)
Commute(f) == IF f = "LT" THEN "GT" ELSE IF f = "GT" THEN "LT" ELSE f

normalize_simple_predicate(p) ==
  IF p.op = "BinOper" /\ p.args[1].op = "ColumnVar" /\ p.args[2].op = "Constant"
    THEN [pred |-> p, rte_idx |-> p.args[1].rte]
  ELSE IF p.op = "BinOper" /\ p.args[1].op = "Constant" /\ p.args[2].op = "ColumnVar"
    THEN [pred |-> BinOper(Commute(p.fn), p.args[2], p.args[1]), rte_idx |-> p.args[2].rte]
  ELSE [pred |-> NullExpr, rte_idx |-> 0]

(* position (1-based) of a column in a target list, 0 when it has none *)
RECURSIVE FindColumn(_, _, _)
FindColumn(tlist, e, i) ==
  IF i > Len(tlist) THEN 0
  ELSE IF tlist[i].expr.op \in {"ColumnVar", "Var"}
          /\ tlist[i].expr.rte = e.rte /\ tlist[i].expr.col = e.col THEN i
  ELSE FindColumn(tlist, e, i + 1)

RECURSIVE FindExpr(_, _, _)
FindExpr(tlist, e, i) ==
  IF i > Len(tlist) THEN 0
  ELSE IF tlist[i].expr = e THEN i
  ELSE FindExpr(tlist, e, i + 1)

(* rewrite_with_child_targetlist / rewrite_with_targetlist: every column   *)
(* reference becomes a reference to its position in the given target list  *)
RECURSIVE rewrite_with_targetlist(_, _)
rewrite_with_targetlist(e, tlist) ==
  IF e.op \in {"ColumnVar", "Var"} THEN Var(e.rte, e.col, FindColumn(tlist, e, 1))
  ELSE [e EXCEPT !.args = [i \in DOMAIN e.args |-> rewrite_with_targetlist(e.args[i], tlist)]]

(* rewrite_having_clause: an aggregate of the HAVING conjunct becomes a    *)
(* reference to the position, in the aggregated target list, of the entry  *)
(* that computes it.                                                       *)
RECURSIVE rewrite_having_clause(_, _, _)
rewrite_having_clause(e, child_tlist, agg_tlist) ==
  IF e.op = "AggExpr"
    THEN Var(0, 0, FindExpr(agg_tlist, rewrite_with_targetlist(e, child_tlist), 1))
  ELSE IF e.op = "ColumnVar"
    THEN Var(e.rte, e.col, FindExpr(agg_tlist, rewrite_with_targetlist(e, child_tlist), 1))
  ELSE [e EXCEPT !.args = [i \in DOMAIN e.args |->
                             rewrite_having_clause(e.args[i], child_tlist, agg_tlist)]]

RECURSIVE CountAggs(_)
CountAggs(e) ==
  IF e.op = "AggExpr" THEN 1
  ELSE IF e.args = <<>> THEN 0
  ELSE IF Len(e.args) = 1 THEN CountAggs(e.args[1])
  ELSE CountAggs(e.args[1]) + CountAggs(e.args[2])

RECURSIVE SumAggs(_)
SumAggs(exprs) == IF exprs = <<>> THEN 0 ELSE CountAggs(Head(exprs)) + SumAggs(Tail(exprs))

TleExprs(tlist) == [i \in DOMAIN tlist |-> tlist[i].expr]

get_num_aggs(q) == SumAggs(TleExprs(q.targetlist)) + SumAggs(q.having_predicate)

(* ------------------------ the analyzed query --------------------------- *)
StmtTypes == {"kSELECT", "kINSERT", "kUPDATE", "kDELETE"}

TableAt(i) == IF i % 2 = 1 THEN 1 ELSE 2

(* range tables of every length up to MaxRT; entry i names table TableAt(i) *)
RangeTables == {[i \in 1..n |-> TableAt(i)] : n \in 0..MaxRT}

RteIdx(rt) == 0..(Len(rt) - 1)

SeqsUpTo(S, n) == UNION {[1..k -> S] : k \in 0..n}

(* The clauses of one query reference the columns of one range-table entry *)
(* f; its join conjunct relates f to the next entry (cyclically).          *)
Foci(rt) == IF rt = <<>> THEN {0} ELSE RteIdx(rt)

Cols(rt, f) == IF rt = <<>> THEN {} ELSE {f}

Pairs(rt, f) == IF Len(rt) < 2 THEN {} ELSE {<<f, (f + 1) % Len(rt)>>}

TargetCands(rt, f) ==
  {[resname |-> "k", expr |-> Constant],
   [resname |-> "n", expr |-> AggExpr("COUNT", <<>>)]}
  \cup {[resname |-> "c", expr |-> ColumnVar(r, 1)] : r \in Cols(rt, f)}
  \cup {[resname |-> "s", expr |-> AggExpr("SUM", <<ColumnVar(r, 2)>>)] : r \in Cols(rt, f)}

WhereCands(rt, f) ==
  {BinOper("EQ", Constant, Constant)}
  \cup {BinOper("EQ", ColumnVar(r, 1), Constant) : r \in Cols(rt, f)}
  \cup {BinOper("LT", Constant, ColumnVar(r, 2)) : r \in Cols(rt, f)}
  \cup {BinOper("EQ", ColumnVar(r, 1), ColumnVar(r, 2)) : r \in Cols(rt, f)}
  \cup {BinOper("EQ", ColumnVar(p[1], 1), ColumnVar(p[2], 1)) : p \in Pairs(rt, f)}

HavingCands(rt, f) ==
  {BinOper("GT", AggExpr("COUNT", <<>>), Constant)}
  \cup {BinOper("GT", AggExpr("SUM", <<ColumnVar(r, 2)>>), Constant) : r \in Cols(rt, f)}
  \cup {BinOper("EQ", ColumnVar(p[1], 1), ColumnVar(p[2], 1)) : p \in Pairs(rt, f)}

GroupByCands(rt, f) == {ColumnVar(r, 1) : r \in Cols(rt, f)}

Query(s, rt, tl, w, g, h, o, u) ==
  [stmt_type |-> s, rangetable |-> rt, targetlist |-> tl, where_predicate |-> w,
   group_by |-> g, having_predicate |-> h, order_by |-> o, next_query |-> u]

(* ------------------------------ state ---------------------------------- *)
VARIABLES query, pc, plans, nextid, freed, stray, base_scans, join_predicates,
          const_predicates, cur_plan, result_table_id, result_col_list, root, result

vars == <<query, pc, plans, nextid, freed, stray, base_scans, join_predicates,
          const_predicates, cur_plan, result_table_id, result_col_list, root, result>>

nullptr == 0

NoRoot == [plan |-> nullptr, stmt_type |-> "none", result_table_id |-> 0, result_col_list |-> <<>>]

(* Plan::Plan and the derived nodes the pipeline builds *)
NewPlan(kind) ==
  [kind |-> kind, targetlist |-> <<>>, quals |-> <<>>, child_plan |-> nullptr,
   simple_quals |-> <<>>, groupby_list |-> <<>>, table_id |-> 0, col_list |-> <<>>, rte |-> -1]

(* Scan::Scan(rte): table id copied, every column id in descriptor order; *)
(* the field rte remembers the range-table index the scan was built from. *)
Scan(rt, r) ==
  [NewPlan("Scan") EXCEPT !.table_id = rt[r + 1], !.col_list = ColumnDescs(rt[r + 1]), !.rte = r]

Init ==
  /\ \E rt \in RangeTables :
       \E f \in Foci(rt) :
         \E s \in (IF rt = <<>> THEN StmtTypes \ {"kINSERT"} ELSE StmtTypes) :
           \E tl \in SeqsUpTo(TargetCands(rt, f), MaxExprs) \ {<<>>} :
             \E w \in SeqsUpTo(WhereCands(rt, f), MaxExprs - Len(tl)) :
               \E g \in SeqsUpTo(GroupByCands(rt, f), MaxExprs - Len(tl) - Len(w)) :
                 \E h \in SeqsUpTo(HavingCands(rt, f), MaxExprs - Len(tl) - Len(w) - Len(g)) :
                   \E o \in BOOLEAN, u \in BOOLEAN :
                     query = Query(s, rt, tl, w, g, h, o, u)
  /\ pc = "optimize"
  /\ plans = << >>
  /\ nextid = 1
  /\ freed = << >>
  /\ stray = {}
  /\ base_scans = << >>
  /\ join_predicates = << >>
  /\ const_predicates = << >>
  /\ cur_plan = nullptr
  /\ result_table_id = 0
  /\ result_col_list = << >>
  /\ root = NoRoot
  /\ result = "none"

(* the control leaves the optimizer without a RootPlan *)
Fail(kind) ==
  /\ pc' = "failed"
  /\ result' = kind

(* ------------------------ Optimizer::optimize -------------------------- *)
InsertColList(rt) == ColumnDescs(rt[1])

Optimize ==
  /\ pc = "optimize"
  /\ \/ /\ query.stmt_type = "kSELECT"
        /\ pc' = "optimize_query"
        /\ UNCHANGED <<result, result_table_id, result_col_list>>
     \/ /\ query.stmt_type = "kINSERT"
        /\ result_table_id' = query.rangetable[1]
        /\ result_col_list' = InsertColList(query.rangetable)
        /\ pc' = "optimize_query"
        /\ UNCHANGED result
     \/ /\ query.stmt_type \in {"kUPDATE", "kDELETE"}
        /\ Fail("Fatal")
        /\ UNCHANGED <<result_table_id, result_col_list>>
  /\ UNCHANGED <<query, plans, nextid, freed, stray, base_scans, join_predicates,
                 const_predicates, cur_plan, root>>

(* --------------------- Optimizer::optimize_query ----------------------- *)
OptimizeQuery ==
  /\ pc = "optimize_query"
  /\ \/ /\ query.next_query
        /\ Fail("NotSupported")
     \/ /\ ~query.next_query
        /\ pc' = "optimize_scans"
        /\ UNCHANGED result
  /\ UNCHANGED <<query, plans, nextid, freed, stray, base_scans, join_predicates,
                 const_predicates, cur_plan, result_table_id, result_col_list, root>>

(* ------------------------- heap bookkeeping ---------------------------- *)
(* a list entry is one heap object: a TargetEntry (with the expression it  *)
(* owns) or a predicate/group-by expression (resname unused)               *)
Entry(id, name, e) == [id |-> id, resname |-> name, expr |-> e]

FreedCount(fr, id) == IF id \in DOMAIN fr THEN fr[id] ELSE 0

(* delete p: one more release of object id *)
Release(fr, id) ==
  IF id \in DOMAIN fr THEN [fr EXCEPT ![id] = @ + 1] ELSE fr @@ (id :> 1)

(* for (auto p : list) delete p; *)
RECURSIVE ReleaseList(_, _)
ReleaseList(fr, list) ==
  IF list = <<>> THEN fr ELSE ReleaseList(Release(fr, Head(list).id), Tail(list))

InBounds(bs, idx) == idx >= 0 /\ idx < Len(bs)

(* base_scans[idx]->add_...(entry); an index outside the vector writes     *)
(* through an indeterminate pointer: no scan receives the entry, which is  *)
(* recorded in stray                                                       *)
AddToScan(h, bs, idx, field, e) ==
  IF InBounds(bs, idx)
    THEN [h EXCEPT !.plans[bs[idx + 1]][field] = Append(@, Entry(h.nextid, "", e)),
                   !.nextid = @ + 1]
    ELSE [h EXCEPT !.nextid = @ + 1, !.stray = @ \cup {h.nextid}]

(* ---------------------- Optimizer::optimize_scans ---------------------- *)
(* the range-table indexes a Scan is built from, in order *)
ScanSourcesAll(q) == [i \in 1..Len(q.rangetable) |-> i - 1]

ScanSources(q) ==
  IF q.stmt_type = "kINSERT"
    THEN [i \in 1..(Len(q.rangetable) - 1) |-> i]
    ELSE [i \in 1..Len(q.rangetable) |-> i - 1]

Min(S) == CHOOSE x \in S : \A y \in S : x <= y

(* lines 146-160: each scan predicate goes to simple_quals or quals *)
RECURSIVE AttachScanPredicates(_, _, _)
AttachScanPredicates(preds, h, bs) ==
  IF preds = <<>> THEN h
  ELSE LET p == Head(preds)
           simple == normalize_simple_predicate(p)
           h1 == IF simple.pred # NullExpr
                   THEN AddToScan(h, bs, simple.rte_idx, "simple_quals", simple.pred)
                   ELSE AddToScan(h, bs, Min(collect_rte_idx(p)), "quals", p)
       IN AttachScanPredicates(Tail(preds), h1, bs)

(* lines 161-174: the column set of the target list, the join predicates, *)
(* the group-by list and the HAVING predicate                             *)
CollectedColumns(q, joinpreds) ==
  CollectAll(q.having_predicate,
    CollectAll(q.group_by,
      CollectAll(joinpreds,
        CollectAll(TleExprs(q.targetlist), <<>>))))

(* lines 175-178 *)
RECURSIVE AttachColumns(_, _, _)
AttachColumns(colvars, h, bs) ==
  IF colvars = <<>> THEN h
  ELSE AttachColumns(Tail(colvars),
                     AddToScan(h, bs, Head(colvars).rte, "targetlist", Head(colvars)), bs)

OptimizeScans ==
  /\ pc = "optimize_scans"
  /\ LET src == ScanSources(query)
         bs == [i \in DOMAIN src |-> nextid + i - 1]
         h0 == [plans |-> plans @@ [id \in SeqToSet(bs) |->
                                      Scan(query.rangetable, src[id - nextid + 1])],
                nextid |-> nextid + Len(src), stray |-> {}]
         gp == group_predicates(query.where_predicate)
         h1 == AttachScanPredicates(gp.scan, h0, bs)
         h2 == AttachColumns(CollectedColumns(query, gp.join), h1, bs)
     IN /\ base_scans' = bs
        /\ join_predicates' = gp.join
        /\ const_predicates' = gp.const
        /\ plans' = h2.plans
        /\ nextid' = h2.nextid
        /\ stray' = h2.stray
        /\ \/ /\ h2.stray = {}
              /\ pc' = "optimize_joins"
              /\ UNCHANGED result
           \/ /\ h2.stray # {}     \* the stray write hit memory of no scan
              /\ pc' = "optimize_joins"
              /\ UNCHANGED result
           \/ /\ h2.stray # {}     \* the stray access faults
              /\ Fail("Crash")
  /\ UNCHANGED <<query, freed, cur_plan, result_table_id, result_col_list, root>>

(* ---------------------- Optimizer::optimize_joins ---------------------- *)
JoinPlanFirst(bs) ==
  IF Len(bs) = 0 THEN [throws |-> FALSE, plan |-> nullptr]
  ELSE [throws |-> FALSE, plan |-> bs[1]]

JoinPlan(bs) ==
  IF Len(bs) = 0 THEN [throws |-> FALSE, plan |-> nullptr]
  ELSE IF Len(bs) = 1 THEN [throws |-> FALSE, plan |-> bs[1]]
  ELSE [throws |-> TRUE, plan |-> nullptr]

OptimizeJoins ==
  /\ pc = "optimize_joins"
  /\ \/ /\ ~JoinPlan(base_scans).throws
        /\ cur_plan' = JoinPlan(base_scans).plan
        /\ pc' = "optimize_aggs"
        /\ UNCHANGED result
     \/ /\ JoinPlan(base_scans).throws
        /\ Fail("NotSupported")
        /\ UNCHANGED cur_plan
  /\ UNCHANGED <<query, plans, nextid, freed, stray, base_scans, join_predicates,
                 const_predicates, result_table_id, result_col_list, root>>

(* ----------------------- Optimizer::optimize_aggs ---------------------- *)
(* the target list read through cur_plan; through a null cur_plan nothing  *)
(* valid is read                                                           *)
CurTargetlist(pl, cp) == IF cp = nullptr THEN <<>> ELSE pl[cp].targetlist

(* lines 197-202 and 232-240: one new TargetEntry per query entry *)
(* exprs are the rewritten (or copied) expressions of tl, in order *)
NewTlist(tl, first, exprs) ==
  [i \in DOMAIN tl |-> Entry(first + i - 1, tl[i].resname, exprs[i])]

NewExprList(exprs, first) ==
  [i \in DOMAIN exprs |-> Entry(first + i - 1, "", exprs[i])]

RewriteAll(exprs, tlist) ==
  [i \in DOMAIN exprs |-> rewrite_with_targetlist(exprs[i], tlist)]

AggsNoop(q) == get_num_aggs(q) = 0 /\ q.having_predicate = <<>>

(* line 213: join and constant conjuncts both land in others *)
HavingOthers(q) ==
  group_predicates(q.having_predicate).join \o group_predicates(q.having_predicate).const

AssertIgnored(others) == TRUE

AssertOthersEmpty(others) == others = <<>>

OptimizeAggs ==
  /\ pc = "optimize_aggs"
  /\ \/ /\ AggsNoop(query)
        /\ pc' = "process_targetlist"
        /\ UNCHANGED <<plans, nextid, cur_plan, result>>
     \/ /\ ~AggsNoop(query)
        /\ cur_plan = nullptr      \* cur_plan->get_targetlist() on nullptr faults
        /\ Fail("Crash")
        /\ UNCHANGED <<plans, nextid, cur_plan>>
     \/ /\ ~AggsNoop(query)        \* ... or the run goes on (nullptr case included)
        /\ LET child == CurTargetlist(plans, cur_plan)
               agg_tlist == NewTlist(query.targetlist, nextid,
                                     RewriteAll(TleExprs(query.targetlist), child))
               n1 == nextid + Len(agg_tlist)
               groupby_list == NewExprList(RewriteAll(query.group_by, child), n1)
               n2 == n1 + Len(groupby_list)
               preds == group_predicates(query.having_predicate).scan
               having_quals ==
                 NewExprList([i \in DOMAIN preds |->
                                rewrite_having_clause(preds[i], child, agg_tlist)], n2)
               n3 == n2 + Len(having_quals)
           IN IF ~AssertOthersEmpty(HavingOthers(query))
                THEN /\ Fail("Fatal")
                     /\ nextid' = n2
                     /\ UNCHANGED <<plans, cur_plan>>
                ELSE /\ plans' = plans @@ (n3 :>
                          [NewPlan("AggPlan") EXCEPT !.targetlist = agg_tlist,
                             !.quals = having_quals, !.child_plan = cur_plan,
                             !.groupby_list = groupby_list])
                     /\ nextid' = n3 + 1
                     /\ cur_plan' = n3
                     /\ pc' = "process_targetlist"
                     /\ UNCHANGED result
  /\ UNCHANGED <<query, freed, stray, base_scans, join_predicates, const_predicates,
                 result_table_id, result_col_list, root>>

(* -------------------- Optimizer::process_targetlist -------------------- *)
KeepTargetlist(fr, tlist) == fr

(* lines 245-246 *)
DeleteOldTargetlist(fr, tlist) == ReleaseList(fr, tlist)

deep_copy(e) == e

ProcessTargetlist ==
  /\ pc = "process_targetlist"
  /\ LET exprs == TleExprs(query.targetlist)
         final_tlist ==
           NewTlist(query.targetlist, nextid,
                    IF cur_plan = nullptr THEN [i \in DOMAIN exprs |-> deep_copy(exprs[i])]
                    ELSE RewriteAll(exprs, plans[cur_plan].targetlist))
         n1 == nextid + Len(final_tlist)
     IN \/ /\ cur_plan = nullptr
           /\ plans' = plans @@ (n1 :> [NewPlan("ValuesScan") EXCEPT !.targetlist = final_tlist])
           /\ cur_plan' = n1
           /\ nextid' = n1 + 1
           /\ UNCHANGED freed
        \/ /\ cur_plan # nullptr
           /\ freed' = DeleteOldTargetlist(freed, plans[cur_plan].targetlist)
           /\ plans' = [plans EXCEPT ![cur_plan].targetlist = final_tlist]
           /\ nextid' = n1
           /\ UNCHANGED cur_plan
  /\ pc' = "optimize_orderby"
  /\ UNCHANGED <<query, stray, base_scans, join_predicates, const_predicates,
                 result_table_id, result_col_list, root, result>>

(* ------- optimize_query lines 115-117 with Optimizer::optimize_orderby -- *)
OrderByIgnored(q) == FALSE

OrderByThrows(q) == q.order_by

OptimizeOrderby ==
  /\ pc = "optimize_orderby"
  /\ \/ /\ OrderByThrows(query)
        /\ Fail("NotSupported")
     \/ /\ ~OrderByThrows(query)
        /\ pc' = "return"
        /\ UNCHANGED result
  /\ UNCHANGED <<query, plans, nextid, freed, stray, base_scans, join_predicates,
                 const_predicates, cur_plan, result_table_id, result_col_list, root>>

(* ------------- optimize line 104: new RootPlan(plan, ...) -------------- *)
Return ==
  /\ pc = "return"
  /\ root' = [plan |-> cur_plan, stmt_type |-> query.stmt_type,
              result_table_id |-> result_table_id, result_col_list |-> result_col_list]
  /\ result' = "RootPlan"
  /\ pc' = "returned"
  /\ UNCHANGED <<query, plans, nextid, freed, stray, base_scans, join_predicates,
                 const_predicates, cur_plan, result_table_id, result_col_list>>

(* ------------------ RootPlan::~RootPlan and Plan::~Plan ---------------- *)
(* the virtual destructor chain of one node: the derived part (Scan's      *)
(* simple_quals, AggPlan's groupby_list), then Plan::~Plan (targetlist,    *)
(* quals, child_plan), then the node's own storage                          *)
RECURSIVE DeletePlan(_, _, _)
DeletePlan(fr, pl, n) ==
  LET p == pl[n]
      f1 == ReleaseList(ReleaseList(fr, p.simple_quals), p.groupby_list)
      f2 == ReleaseList(ReleaseList(f1, p.targetlist), p.quals)
      f3 == IF p.child_plan # nullptr THEN DeletePlan(f2, pl, p.child_plan) ELSE f2
  IN Release(f3, n)

DestroyRootPlan ==
  /\ pc = "returned"
  /\ freed' = DeletePlan(freed, plans, root.plan)
  /\ pc' = "destroyed"
  /\ UNCHANGED <<query, plans, nextid, stray, base_scans, join_predicates,
                 const_predicates, cur_plan, result_table_id, result_col_list, root, result>>

Next ==
  \/ Optimize
  \/ OptimizeQuery
  \/ OptimizeScans
  \/ OptimizeJoins
  \/ OptimizeAggs
  \/ ProcessTargetlist
  \/ OptimizeOrderby
  \/ Return
  \/ DestroyRootPlan

Spec == Init /\ [][Next]_vars

(* ============================ properties =============================== *)
Done == pc \in {"failed", "returned", "destroyed"}

ExprsOf(list) == {list[i].expr : i \in DOMAIN list}

(* the scans built from range-table entry r *)
ScansOf(r) == {n \in SeqToSet(base_scans) : plans[n].rte = r}

RECURSIVE ColumnsIn(_)
ColumnsIn(e) ==
  IF e.op = "ColumnVar" THEN {e} ELSE UNION {ColumnsIn(e.args[i]) : i \in DOMAIN e.args}

ColumnsOfList(exprs) == UNION {ColumnsIn(exprs[i]) : i \in DOMAIN exprs}

(* the columns referenced in the target list, the join conjuncts of WHERE, *)
(* the group-by list and HAVING                                            *)
ReferencedColumns ==
  ColumnsOfList(TleExprs(query.targetlist))
    \cup ColumnsOfList(SelectSeq(query.where_predicate, IsJoinPred))
    \cup ColumnsOfList(query.group_by)
    \cup ColumnsOfList(query.having_predicate)

SelectOrInsert == query.stmt_type \in {"kSELECT", "kINSERT"}

(* an undefined access was executed: a base_scans index outside the vector *)
(* or the target list of an absent current plan                            *)
UndefinedAccess == stray # {} \/ (cur_plan = nullptr /\ ~AggsNoop(query))

(* C1: join assembly follows the single-scan policy: from optimize_joins,  *)
(* zero base scans leave the current plan absent, one base scan becomes    *)
(* the current plan with no node changed, and two or more end the run with *)
(* NotSupported and without a RootPlan; a failed run never has a RootPlan. *)
C1_JoinPolicy ==
  /\ [](pc = "failed" => root = NoRoot)
  /\ [][pc = "optimize_joins" =>
          /\ Len(base_scans) = 0 => (pc' = "optimize_aggs" /\ cur_plan' = nullptr)
          /\ Len(base_scans) = 1 =>
               (pc' = "optimize_aggs" /\ cur_plan' = base_scans[1] /\ plans' = plans)
          /\ Len(base_scans) >= 2 =>
               (pc' = "failed" /\ result' = "NotSupported" /\ root' = NoRoot)]_vars

C1_Witness ==
  pc = "failed" /\ result = "NotSupported" /\ ~query.next_query /\ Len(base_scans) >= 2

(* C2 as stated: every query with an ORDER BY clause ends with             *)
(* NotSupported, whatever its statement kind and other clauses.            *)
C2_Original == (Done /\ query.order_by) => result = "NotSupported"

(* C2 amended: a query with an ORDER BY clause never yields a RootPlan; it *)
(* ends with NotSupported unless it ends in the fatal assertion (UPDATE or *)
(* DELETE, or a join/constant HAVING conjunct) or crashes on one of the    *)
(* undefined accesses.                                                      *)
C2_OrderBy ==
  query.order_by =>
    /\ root = NoRoot
    /\ pc \notin {"return", "returned", "destroyed"}
    /\ pc = "failed" =>
         \/ result = "NotSupported"
         \/ /\ result = "Fatal"
            /\ query.stmt_type \in {"kUPDATE", "kDELETE"} \/ HavingOthers(query) # <<>>
         \/ result = "Crash" /\ UndefinedAccess

C2_Witness ==
  /\ pc = "failed" /\ result = "NotSupported" /\ query.order_by /\ ~query.next_query
  /\ cur_plan # nullptr /\ plans[cur_plan].kind = "AggPlan"
  /\ Len(plans[cur_plan].targetlist) = Len(query.targetlist)

(* C3 as stated, for a SELECT without UNION link: if its HAVING has a      *)
(* conjunct over two or more tables, or over none, planning ends in the    *)
(* fatal assertion and never with NotSupported.                            *)
C3_Original ==
  (Done /\ query.stmt_type = "kSELECT" /\ ~query.next_query /\ HavingOthers(query) # <<>>)
    => (result = "Fatal" /\ result # "NotSupported")

(* C3 amended: a query whose HAVING has a join or constant conjunct never  *)
(* yields a RootPlan; it ends in the fatal assertion when optimize_aggs is *)
(* reached (at most one base scan, no UNION) or the statement is UPDATE or *)
(* DELETE, with NotSupported when it has a UNION link or two or more base  *)
(* scans, and it may crash on one of the undefined accesses.               *)
C3_Having ==
  HavingOthers(query) # <<>> =>
    /\ root = NoRoot
    /\ pc \notin {"process_targetlist", "optimize_orderby", "return", "returned", "destroyed"}
    /\ pc = "failed" =>
         \/ /\ result = "Fatal"
            /\ \/ query.stmt_type \in {"kUPDATE", "kDELETE"}
               \/ (~query.next_query /\ Len(base_scans) <= 1)
         \/ /\ result = "NotSupported"
            /\ SelectOrInsert
            /\ query.next_query \/ Len(base_scans) >= 2
         \/ result = "Crash" /\ UndefinedAccess

C3_Witness ==
  /\ pc = "failed" /\ result = "Fatal" /\ query.stmt_type = "kSELECT"
  /\ HavingOthers(query) # <<>> /\ Len(base_scans) = 1 /\ cur_plan = base_scans[1]

(* the run got past scan construction *)
ScansBuilt ==
  \/ pc \in {"optimize_joins", "optimize_aggs", "process_targetlist", "optimize_orderby",
             "return", "returned", "destroyed"}
  \/ pc = "failed" /\ SelectOrInsert /\ ~query.next_query

(* C4: a returned INSERT plan carries kind INSERT, the table id and the    *)
(* column ids (descriptor order) of range-table entry zero, and no base    *)
(* scan was built from entry zero (one scan per later entry); a SELECT     *)
(* builds one scan per range-table entry, in range-table order.            *)
C4_InsertRoot ==
  /\ (pc \in {"returned", "destroyed"} /\ query.stmt_type = "kINSERT") =>
       /\ root.stmt_type = "kINSERT"
       /\ root.result_table_id = query.rangetable[1]
       /\ root.result_col_list = ColumnDescs(query.rangetable[1])
       /\ Len(base_scans) = Len(query.rangetable) - 1
       /\ \A i \in DOMAIN base_scans :
            /\ plans[base_scans[i]].rte = i
            /\ plans[base_scans[i]].table_id = query.rangetable[i + 1]
  /\ (ScansBuilt /\ query.stmt_type = "kSELECT") =>
       /\ Len(base_scans) = Len(query.rangetable)
       /\ \A i \in DOMAIN base_scans :
            /\ plans[base_scans[i]].rte = i - 1
            /\ plans[base_scans[i]].table_id = query.rangetable[i]
            /\ plans[base_scans[i]].col_list = ColumnDescs(query.rangetable[i])

C4_Witness ==
  /\ pc = "returned" /\ query.stmt_type = "kINSERT" /\ Len(query.rangetable) = 2
  /\ Len(base_scans) = 1 /\ root.result_col_list = <<1, 2>>

(* C5: after optimize_scans every single-table WHERE conjunct (over a      *)
(* range-table entry a scan is built from) that normalizes is, normalized, *)
(* in the simple_quals of the scan built from its table's range-table      *)
(* entry and in no scan's quals; one that does not normalize is in the     *)
(* quals of the scan of its table (SELECT and INSERT).                     *)
C5_Pushdown ==
  pc = "optimize_joins" =>
    \A i \in DOMAIN query.where_predicate :
      LET p == query.where_predicate[i]
          r == Min(collect_rte_idx(p))
          n == normalize_simple_predicate(p)
      IN (IsScanPred(p) /\ ScansOf(r) # {}) =>
           IF n.pred # NullExpr
             THEN /\ \E s \in ScansOf(r) : n.pred \in ExprsOf(plans[s].simple_quals)
                  /\ \A s \in SeqToSet(base_scans) : n.pred \notin ExprsOf(plans[s].quals)
             ELSE \E s \in ScansOf(r) : p \in ExprsOf(plans[s].quals)

(* C6: after optimize_scans every referenced (table index, column id) pair *)
(* (of a range-table entry a scan is built from) has exactly one anonymous *)
(* TargetEntry in the target list of the scan owning it, and no scan has a *)
(* TargetEntry for any other column.                                       *)
C6_Dedup ==
  pc = "optimize_joins" =>
    /\ \A cv \in {c \in ReferencedColumns : ScansOf(c.rte) # {}} :
         \E s \in ScansOf(cv.rte) :
           Cardinality({i \in DOMAIN plans[s].targetlist :
                          /\ plans[s].targetlist[i].expr = cv
                          /\ plans[s].targetlist[i].resname = ""}) = 1
    /\ \A s \in SeqToSet(base_scans) : ExprsOf(plans[s].targetlist) \subseteq ReferencedColumns

(* C7: the plan under a returned RootPlan has one target entry per query   *)
(* target entry, same order and names; it is a ValuesScan exactly when     *)
(* there is no base scan, else the single Scan or the AggPlan above it.    *)
C7_FinalProjection ==
  pc = "returned" =>
    LET p == plans[root.plan]
    IN /\ Len(p.targetlist) = Len(query.targetlist)
       /\ \A i \in DOMAIN p.targetlist : p.targetlist[i].resname = query.targetlist[i].resname
       /\ p.kind = "ValuesScan" <=> base_scans = <<>>
       /\ base_scans # <<>> =>
            \/ root.plan = base_scans[1]
            \/ p.kind = "AggPlan" /\ p.child_plan = base_scans[1]

(* C8: after optimize_scans every collected column with range-table index  *)
(* i (of an entry a scan is built from) found base_scans[i] inside the     *)
(* vector, that scan has the table id of range-table entry i, and the      *)
(* column's TargetEntry is in its target list.                             *)
C8_OwningScan ==
  pc = "optimize_joins" =>
    \A cv \in {c \in ReferencedColumns : ScansOf(c.rte) # {}} :
      /\ InBounds(base_scans, cv.rte)
      /\ plans[base_scans[cv.rte + 1]].table_id = query.rangetable[cv.rte + 1]
      /\ cv \in ExprsOf(plans[base_scans[cv.rte + 1]].targetlist)

Objects == 1..(nextid - 1)

ListFields == {"targetlist", "quals", "simple_quals", "groupby_list"}

(* the owning slots: the entries of each node's lists, each child_plan    *)
(* pointer, and the RootPlan's plan pointer                                *)
Slots ==
  UNION {{<<nf[1], nf[2], i>> : i \in DOMAIN plans[nf[1]][nf[2]]} :
           nf \in (DOMAIN plans) \X ListFields}
  \cup {<<n, "child_plan", 0>> : n \in {m \in DOMAIN plans : plans[m].child_plan # nullptr}}
  \cup (IF root.plan # nullptr THEN {<<0, "plan", 0>>} ELSE {})

SlotObject(s) ==
  IF s[2] = "child_plan" THEN plans[s[1]].child_plan
  ELSE IF s[2] = "plan" THEN root.plan
  ELSE plans[s[1]][s[2]][s[3]].id

Held == {SlotObject(s) : s \in Slots}

(* C9: single-owner tree: no object is held by two owning slots, nothing   *)
(* is released twice, nothing still held (or still the optimizer's current *)
(* plan or base scan) has been released before the teardown, and once the  *)
(* RootPlan is destroyed every object ever attached to a plan node has     *)
(* been released exactly once.                                             *)
C9_SingleOwner ==
  /\ \A s1 \in Slots : \A s2 \in Slots : SlotObject(s1) = SlotObject(s2) => s1 = s2
  /\ \A id \in DOMAIN freed : freed[id] <= 1
  /\ pc # "destroyed" =>
       \A id \in Held \cup SeqToSet(base_scans) \cup ({cur_plan} \ {nullptr}) :
         FreedCount(freed, id) = 0
  /\ pc = "destroyed" => \A id \in Objects \ stray : FreedCount(freed, id) = 1

C9_Witness ==
  /\ pc = "destroyed"
  /\ plans[root.plan].kind = "AggPlan"
  /\ plans[root.plan].groupby_list # <<>>
  /\ plans[root.plan].child_plan # nullptr
  /\ plans[plans[root.plan].child_plan].simple_quals # <<>>
  /\ \E id \in Objects \ Held : FreedCount(freed, id) = 1

(* C10: aggregation planning never reads an absent plan: when optimize_aggs *)
(* does not return early a current plan exists, and every AggPlan has a    *)
(* child plan.                                                             *)
C10_ChildPresent ==
  /\ (pc = "optimize_aggs" /\ ~AggsNoop(query)) => cur_plan # nullptr
  /\ \A n \in DOMAIN plans : plans[n].kind = "AggPlan" => plans[n].child_plan # nullptr

====
